---- MODULE Spec2Model ----
(***************************************************************************)
(* Model of src/runtime.ts: loadGraph, topoSort (Kahn), resolveInput,      *)
(* executeNode and runGraph.  One run of runGraph(graphPath) is one        *)
(* behaviour; the graph file and the module files are the environment.     *)
(***************************************************************************)
EXTENDS Integers, Sequences, FiniteSets, TLC

VARIABLES
    disk,       \* the content found at graphPath (environment)
    pc,         \* position of the run
    nodes,      \* graph.nodes as returned by loadGraph
    byId,       \* topoSort: Map<string, NodeSpec>
    inDegree,   \* topoSort: Map<string, number>
    adjacency,  \* topoSort: Map<string, string[]>
    queue,      \* topoSort: string[]
    result,     \* topoSort: NodeSpec[]
    i,          \* index of the current element of the running for-of loop
    j,          \* index of the current element of the nested for-of loop
    id,         \* topoSort: the id taken from the queue
    ordered,    \* runGraph: the value returned by topoSort
    state,      \* runGraph: Map<string, ExecutionRecord>
    entry,      \* executeNode: what was read / instantiated for the current node
    started,    \* ids for which executeNode has been called, in call order
    calls,      \* invocations of module entry points, in call order
    refs,       \* which array object `ordered` and each record's dependencies are
    outcome     \* what the caller of runGraph receives

vars == <<disk, pc, nodes, byId, inDegree, adjacency, queue, result, i, j,
          id, ordered, state, entry, started, calls, refs, outcome>>

sortVars == <<byId, inDegree, adjacency, queue, result, id>>
runVars  == <<ordered, state, entry, started, calls, refs>>

-----------------------------------------------------------------------------
(* Bounds of the explored inputs *)

Ids == {"fetchUser", "calcDiscount", "renderProfile"}

\* The ids of the wider inputs of topoSort alone, in declaration order.
SortIds == <<"fetchUser", "calcDiscount", "renderProfile", "notifyUser">>

\* A node sequence longer than the id set only adds repeated ids.
MaxNodes == Cardinality(Ids)
MaxEdges == 3
MaxSortEdges == 4

\* The module file each node names (NodeSpec.wasm), relative to the graph file.
WasmPath ==
    [n \in {SortIds[k] : k \in 1..Len(SortIds)} |->
        CASE n = "fetchUser"     -> "nodes/fetchUser.wasm"
          [] n = "calcDiscount"  -> "nodes/calcDiscount.wasm"
          [] n = "renderProfile" -> "nodes/renderProfile.wasm"
          [] n = "notifyUser"    -> "nodes/notifyUser.wasm"]

-----------------------------------------------------------------------------
(* JavaScript values *)

\* An optional field: {} when absent, {v} when present.
Absent == {}
Present(v) == {v}

\* node.dependsOn ?? []
DependsOnOrEmpty(node) ==
    IF node.dependsOn = Absent THEN <<>> ELSE CHOOSE d \in node.dependsOn : TRUE

\* A Map keeps its entries in insertion order; set() on an existing key
\* replaces the value in place.
MapHas(m, k) == \E x \in 1..Len(m) : m[x].k = k

MapGet(m, k) == m[CHOOSE x \in 1..Len(m) : m[x].k = k].v

MapSet(m, k, v) ==
    IF MapHas(m, k)
    THEN [x \in 1..Len(m) |-> IF m[x].k = k THEN [k |-> k, v |-> v] ELSE m[x]]
    ELSE Append(m, [k |-> k, v |-> v])

MapKeys(m) == [x \in 1..Len(m) |-> m[x].k]

\* i32 arithmetic of the compiled modules (wrapping at 32 bits)
I32Double(x) ==
    IF x > 1073741823 THEN (x - 2147483647 - 1) + (x - 2147483647 - 1)
    ELSE IF x < -1073741823 - 1 THEN (x + 2147483647 + 1) + (x + 2147483647 + 1)
    ELSE 2 * x

I32Dec(x) == IF x = -2147483647 - 1 THEN 2147483647 ELSE x - 1

-----------------------------------------------------------------------------
(* Errors and what the caller receives *)

Err(kind, node, dep) == [kind |-> kind, node |-> node, dep |-> dep]

\* Array objects, told apart by where they were created and for which node.
NoArray             == [site |-> "none", owner |-> ""]
NodesArray          == [site |-> "graph.nodes", owner |-> ""]
DependsOnArray(nid) == [site |-> "dependsOn", owner |-> nid]
ResultArray         == [site |-> "topoSort.result", owner |-> ""]
LiteralArray(nid)   == [site |-> "executeNode.literal", owner |-> nid]
SpreadArray(nid)    == [site |-> "executeNode.spread", owner |-> nid]

Pending      == [kind |-> "pending"]
Thrown(e)    == [kind |-> "error", error |-> e]
Returned(st) == [kind |-> "state", state |-> st]

-----------------------------------------------------------------------------
(* Inputs: graph files *)

RECURSIVE Sum(_, _)
Sum(f, n) == IF n = 0 THEN 0 ELSE f[n] + Sum(f, n - 1)

\* The node sequence with ids `ids`, whose k-th node declares the next lens[k]
\* entries of `flat` as its dependsOn, or no dependsOn field at all.
GraphOf(ids, lens, absent, flat) ==
    [k \in 1..Len(ids) |->
        [id        |-> ids[k],
         wasm      |-> WasmPath[ids[k]],
         dependsOn |-> IF absent[k] THEN Absent
                       ELSE Present(SubSeq(flat, Sum(lens, k - 1) + 1, Sum(lens, k)))]]

MalformedKinds == {"unreadable", "notJson", "nodesNotArray"}

\* Every node sequence of at most MaxNodes nodes over Ids with at most MaxEdges
\* dependsOn entries in total (ids may repeat, entries may name any id of Ids,
\* also one that no node carries), and the three kinds of unusable file.
InitDisk ==
    \/ \E n \in 0..MaxNodes :
         \E lens \in [1..n -> 0..MaxEdges] :
            /\ Sum(lens, n) <= MaxEdges
            /\ \E ids \in [1..n -> Ids] :
                 \E absent \in [1..n -> BOOLEAN] :
                    /\ \A k \in 1..n : absent[k] => lens[k] = 0
                    /\ \E flat \in [1..Sum(lens, n) -> Ids] :
                         disk = [kind |-> "graph", nodes |-> GraphOf(ids, lens, absent, flat)]
    \/ \E k \in MalformedKinds : disk = [kind |-> k, nodes |-> <<>>]

\* For topoSort alone, which treats ids as opaque keys: the node sequences
\* whose ids are the first n of SortIds (no id repeats), with at most
\* MaxSortEdges dependsOn entries in total, each naming any id of SortIds
\* (every node has a dependsOn field).
InitSortDisk ==
    \E n \in 0..Len(SortIds) :
       \E lens \in [1..n -> 0..MaxSortEdges] :
          /\ Sum(lens, n) <= MaxSortEdges
          /\ \E flat \in [1..Sum(lens, n) -> {SortIds[k] : k \in 1..Len(SortIds)}] :
               disk = [kind |-> "graph",
                       nodes |-> GraphOf(SubSeq(SortIds, 1, n), lens,
                                         [k \in 1..n |-> FALSE], flat)]

InitRun ==
    /\ pc = "loadGraph"
    /\ nodes = <<>>
    /\ byId = <<>>
    /\ inDegree = <<>>
    /\ adjacency = <<>>
    /\ queue = <<>>
    /\ result = <<>>
    /\ i = 1
    /\ j = 1
    /\ id = ""
    /\ ordered = <<>>
    /\ state = <<>>
    /\ entry = "none"
    /\ started = <<>>
    /\ calls = <<>>
    /\ refs = [ordered |-> NoArray, dependencies |-> <<>>]
    /\ outcome = Pending

Init == InitDisk /\ InitRun

InitSort == InitSortDisk /\ InitRun

-----------------------------------------------------------------------------
(* loadGraph *)

LoadGraph ==
    /\ pc = "loadGraph"
    /\ LET e == CASE disk.kind = "unreadable"    -> Err("GraphReadFailure", "", "")
                  [] disk.kind = "notJson"       -> Err("GraphParseFailure", "", "")
                  [] disk.kind = "nodesNotArray" -> Err("MalformedGraph", "", "")
                  [] OTHER                       -> Err("none", "", "")
       IN  IF e.kind = "none"
           THEN /\ nodes' = disk.nodes
                /\ pc' = "register"
                /\ outcome' = outcome
           ELSE /\ nodes' = nodes
                /\ pc' = "failed"
                /\ outcome' = Thrown(e)
    /\ UNCHANGED <<disk, i, j, sortVars, runVars>>

-----------------------------------------------------------------------------
(* topoSort *)

\* faulty variant: the error is swallowed and the state built so far returned
M_ThrowReturnsState(e) ==
    /\ pc' = "failed"
    /\ outcome' = Returned(state)

\* throw: the run ends and the caller receives the error
Throw(e) ==
    /\ pc' = "failed"
    /\ outcome' = Thrown(e)

\* faulty variant: no test for a repeated id
M_IsDuplicateNever(m, node) == FALSE

\* line 42: byId.has(node.id)
IsDuplicate(m, node) == MapHas(m, node.id)

\* lines 41-48, one iteration: reject a repeated id, else enter the node in
\* the three maps
Register ==
    /\ pc = "register"
    /\ IF i > Len(nodes)
       THEN /\ pc' = "link"
            /\ i' = 1
            /\ UNCHANGED <<byId, inDegree, adjacency, outcome>>
       ELSE LET node == nodes[i] IN
            IF IsDuplicate(byId, node)
            THEN /\ Throw(Err("DuplicateNode", node.id, ""))
                 /\ UNCHANGED <<i, byId, inDegree, adjacency>>
            ELSE /\ byId' = MapSet(byId, node.id, node)
                 /\ inDegree' = MapSet(inDegree, node.id, 0)
                 /\ adjacency' = MapSet(adjacency, node.id, <<>>)
                 /\ i' = i + 1
                 /\ UNCHANGED <<pc, outcome>>
    /\ UNCHANGED <<disk, nodes, j, queue, result, id, runVars>>

\* inDegree.get(k) ?? 0
DegreeOrZero(m, k) == IF MapHas(m, k) THEN MapGet(m, k) ELSE 0

\* faulty variant: the dependent goes to the front of the list
M_PushNeighborFront(m, dep, n) ==
    IF MapHas(m, dep) THEN MapSet(m, dep, <<n>> \o MapGet(m, dep)) ELSE m

\* faulty variant: a dependent already listed is not pushed again
M_PushNeighborOnce(m, dep, n) ==
    IF MapHas(m, dep) /\ n \notin {MapGet(m, dep)[x] : x \in 1..Len(MapGet(m, dep))}
    THEN MapSet(m, dep, Append(MapGet(m, dep), n))
    ELSE m

\* adjacency.get(dep)?.push(id)
PushNeighbor(m, dep, n) ==
    IF MapHas(m, dep) THEN MapSet(m, dep, Append(MapGet(m, dep), n)) ELSE m

\* faulty variant: no test for an unknown dependency
M_IsUnknownNever(m, dep) == FALSE

\* line 52: !byId.has(dep)
IsUnknown(m, dep) == ~MapHas(m, dep)

\* lines 50-58, one dependsOn entry of node i (j is the entry's index)
Link ==
    /\ pc = "link"
    /\ IF i > Len(nodes)
       THEN /\ pc' = "seed"
            /\ UNCHANGED <<i, j, inDegree, adjacency, outcome>>
       ELSE LET node == nodes[i]
                deps == DependsOnOrEmpty(node)
            IN  IF j > Len(deps)
                THEN /\ i' = i + 1
                     /\ j' = 1
                     /\ UNCHANGED <<pc, inDegree, adjacency, outcome>>
                ELSE IF IsUnknown(byId, deps[j])
                THEN /\ Throw(Err("UnknownDependency", node.id, deps[j]))
                     /\ UNCHANGED <<i, j, inDegree, adjacency>>
                ELSE /\ inDegree' = MapSet(inDegree, node.id, DegreeOrZero(inDegree, node.id) + 1)
                     /\ adjacency' = PushNeighbor(adjacency, deps[j], node.id)
                     /\ j' = j + 1
                     /\ UNCHANGED <<i, pc, outcome>>
    /\ UNCHANGED <<disk, nodes, byId, queue, result, id, runVars>>

\* faulty variant: a node with one dependency left is seeded as well
M_ZeroDegreeOrOne(x) == x.v <= 1

\* lines 60-65: the keys of inDegree with degree 0, in the map's entry order
ZeroDegree(x) == x.v = 0

\* faulty variant: every node is seeded, whatever its degree
M_SeedQueueAll(m) == MapKeys(m)

SeedQueue(m) == MapKeys(SelectSeq(m, ZeroDegree))

Seed ==
    /\ pc = "seed"
    /\ queue' = SeedQueue(inDegree)
    /\ result' = <<>>
    /\ pc' = "dequeue"
    /\ UNCHANGED <<disk, nodes, byId, inDegree, adjacency, i, j, id, outcome, runVars>>

\* lines 68-74: the loop test, queue.shift() and result.push(node)
Dequeue ==
    /\ pc = "dequeue"
    /\ IF queue = <<>>
       THEN /\ pc' = "verify"
            /\ UNCHANGED <<queue, result, id, j, outcome>>
       ELSE /\ id' = Head(queue)
            /\ queue' = Tail(queue)
            /\ IF ~MapHas(byId, Head(queue))
               THEN /\ Throw(Err("NodeMissing", Head(queue), ""))
                    /\ UNCHANGED <<result, j>>
               ELSE /\ result' = Append(result, MapGet(byId, Head(queue)))
                    /\ j' = 1
                    /\ pc' = "relax"
                    /\ UNCHANGED outcome
    /\ UNCHANGED <<disk, nodes, byId, inDegree, adjacency, i, runVars>>

\* adjacency.get(id) ?? []
NeighborsOrEmpty(m, k) == IF MapHas(m, k) THEN MapGet(m, k) ELSE <<>>

\* lines 76-85, one neighbor of the dequeued node (j is the neighbor's index)
Relax ==
    /\ pc = "relax"
    /\ LET neighbors == NeighborsOrEmpty(adjacency, id) IN
       IF j > Len(neighbors)
       THEN /\ pc' = "dequeue"
            /\ UNCHANGED <<j, inDegree, queue, outcome>>
       ELSE LET neighbor   == neighbors[j]
                nextDegree == DegreeOrZero(inDegree, neighbor) - 1
            IN  IF nextDegree < 0
                THEN /\ Throw(Err("NegativeIndegree", neighbor, ""))
                     /\ UNCHANGED <<j, inDegree, queue>>
                ELSE /\ inDegree' = MapSet(inDegree, neighbor, nextDegree)
                     /\ queue' = IF nextDegree = 0 THEN Append(queue, neighbor) ELSE queue
                     /\ j' = j + 1
                     /\ UNCHANGED <<pc, outcome>>
    /\ UNCHANGED <<disk, nodes, byId, adjacency, result, i, id, runVars>>

\* faulty variant: no length test after the queue empties
M_IncompleteNever(res, ns) == FALSE

\* line 88: result.length !== nodes.length
Incomplete(res, ns) == Len(res) # Len(ns)

\* lines 88-92 and runGraph lines 139-141: the length test; on success the
\* order is handed to runGraph, which creates the empty state map
Verify ==
    /\ pc = "verify"
    /\ IF Incomplete(result, nodes)
       THEN /\ Throw(Err("CyclicGraph", "", ""))
            /\ UNCHANGED <<ordered, refs, i>>
       ELSE /\ ordered' = result
            /\ refs' = [refs EXCEPT !.ordered = ResultArray]
            /\ i' = 1
            /\ pc' = "loop"
            /\ UNCHANGED outcome
    /\ UNCHANGED <<disk, nodes, j, sortVars, state, entry, started, calls>>

-----------------------------------------------------------------------------
(* The module files (environment) *)

\* The entry point the build puts in each module file: fetchUser yields 1001
\* whatever its input, calcDiscount yields input * 2 - 1, renderProfile
\* doubles its input.
ModuleMain(m, x) ==
    CASE m = "nodes/fetchUser.wasm"     -> 1001
      [] m = "nodes/calcDiscount.wasm"  -> I32Dec(I32Double(x))
      [] m = "nodes/renderProfile.wasm" -> I32Double(x)

\* What readFile can find at a module path: nothing readable, bytes that are
\* no WebAssembly module, a module without a main function, or the built module.
FileContents(path) == {"unreadable", "malformed", "noMain", path}

-----------------------------------------------------------------------------
(* resolveInput, executeNode, runGraph *)

\* faulty variant: the first declared dependency
M_FirstDependency(deps) == deps[1]

\* line 106: deps[deps.length - 1]
LastDependency(deps) == deps[Len(deps)]

\* faulty variant: a node without dependencies is fed the latest output
M_ResolveInputChained(node, st) ==
    LET deps == DependsOnOrEmpty(node) IN
    IF Len(deps) = 0
    THEN [ok |-> TRUE, value |-> IF st = <<>> THEN 0 ELSE st[Len(st)].v.output,
          error |-> Err("none", "", "")]
    ELSE IF ~MapHas(st, LastDependency(deps))
    THEN [ok |-> FALSE, value |-> 0,
          error |-> Err("MissingUpstreamState", node.id, LastDependency(deps))]
    ELSE [ok |-> TRUE, value |-> MapGet(st, LastDependency(deps)).output,
          error |-> Err("none", "", "")]

\* faulty variant: the dependency's input is passed on, not its output
M_ResolveInputOfInput(node, st) ==
    LET deps == DependsOnOrEmpty(node) IN
    IF Len(deps) = 0
    THEN [ok |-> TRUE, value |-> 0, error |-> Err("none", "", "")]
    ELSE IF ~MapHas(st, LastDependency(deps))
    THEN [ok |-> FALSE, value |-> 0,
          error |-> Err("MissingUpstreamState", node.id, LastDependency(deps))]
    ELSE [ok |-> TRUE, value |-> MapGet(st, LastDependency(deps)).input,
          error |-> Err("none", "", "")]

\* lines 101-112: the input, or the error thrown
ResolveInput(node, st) ==
    LET deps == DependsOnOrEmpty(node) IN
    IF Len(deps) = 0
    THEN [ok |-> TRUE, value |-> 0, error |-> Err("none", "", "")]
    ELSE IF ~MapHas(st, LastDependency(deps))
    THEN [ok |-> FALSE, value |-> 0,
          error |-> Err("MissingUpstreamState", node.id, LastDependency(deps))]
    ELSE [ok |-> TRUE, value |-> MapGet(st, LastDependency(deps)).output,
          error |-> Err("none", "", "")]

\* lines 127-131
Record(node, input, output) ==
    [input |-> input, output |-> output, dependencies |-> DependsOnOrEmpty(node)]

\* faulty variant: the record holds the node's own dependsOn array
M_DependenciesAlias(node) ==
    IF node.dependsOn = Absent THEN LiteralArray(node.id) ELSE DependsOnArray(node.id)

\* line 130: [...(node.dependsOn ?? [])] is a new array whatever it spreads
DependenciesArray(node) == SpreadArray(node.id)

\* faulty variant: the record is keyed by the module path
M_StateSetByPath(st, node, rec) == MapSet(st, node.wasm, rec)

\* faulty variant: the record goes into a map created anew for each node
M_StateSetFresh(st, node, rec) == MapSet(<<>>, node.id, rec)

\* line 127: state.set(node.id, record)
StateSet(st, node, rec) == MapSet(st, node.id, rec)

\* runGraph lines 143-147: the loop test; either executeNode is called for the
\* next node of the order (up to its readFile), or the state is returned
LoopNext ==
    /\ pc = "loop"
    /\ IF i > Len(ordered)
       THEN /\ outcome' = Returned(state)
            /\ pc' = "done"
            /\ UNCHANGED started
       ELSE /\ started' = Append(started, ordered[i].id)
            /\ pc' = "readFile"
            /\ UNCHANGED outcome
    /\ UNCHANGED <<disk, nodes, i, j, sortVars, ordered, state, entry, calls, refs>>

\* line 119: readFile(wasmPath) settles
ReadFile ==
    /\ pc = "readFile"
    /\ \E content \in FileContents(ordered[i].wasm) :
         IF content = "unreadable"
         THEN /\ Throw(Err("ModuleLoadFailure", ordered[i].id, ""))
              /\ UNCHANGED entry
         ELSE /\ entry' = content
              /\ pc' = "instantiate"
              /\ UNCHANGED outcome
    /\ UNCHANGED <<disk, nodes, i, j, sortVars, ordered, state, started, calls, refs>>

\* line 120: WebAssembly.instantiate(wasmBinary, {}) settles
Instantiate ==
    /\ pc = "instantiate"
    /\ IF entry = "malformed"
       THEN Throw(Err("ModuleInstantiateFailure", ordered[i].id, ""))
       ELSE /\ pc' = "invoke"
            /\ UNCHANGED outcome
    /\ UNCHANGED <<disk, nodes, i, j, sortVars, runVars>>

\* lines 121-131: the test of the main export, resolveInput, the call of the
\* entry point and state.set; then the loop of runGraph moves on
Invoke ==
    /\ pc = "invoke"
    /\ LET node == ordered[i]
           in   == ResolveInput(node, state)
       IN  IF entry = "noMain"
           THEN /\ Throw(Err("MissingEntryPoint", node.id, ""))
                /\ UNCHANGED <<state, calls, refs, i>>
           ELSE IF ~in.ok
           THEN /\ Throw(in.error)
                /\ UNCHANGED <<state, calls, refs, i>>
           ELSE /\ calls' = Append(calls, [id |-> node.id, module |-> entry, input |-> in.value])
                /\ state' = StateSet(state, node, Record(node, in.value, ModuleMain(entry, in.value)))
                /\ refs' = [refs EXCEPT !.dependencies = MapSet(@, node.id, DependenciesArray(node))]
                /\ i' = i + 1
                /\ pc' = "loop"
                /\ UNCHANGED outcome
    /\ UNCHANGED <<disk, nodes, j, sortVars, ordered, entry, started>>

Next ==
    \/ LoadGraph
    \/ Register
    \/ Link
    \/ Seed
    \/ Dequeue
    \/ Relax
    \/ Verify
    \/ LoopNext
    \/ ReadFile
    \/ Instantiate
    \/ Invoke

Spec == Init /\ [][Next]_vars

\* Synchronous code runs to completion and every awaited read or
\* instantiation settles, so a run never stops at a step it can take.
FairSpec == Init /\ [][Next]_vars /\ WF_vars(Next)

\* topoSort alone, as runGraph calls it, on the wider inputs
NextSort ==
    \/ LoadGraph
    \/ Register
    \/ Link
    \/ Seed
    \/ Dequeue
    \/ Relax
    \/ Verify

SortSpec == InitSort /\ [][NextSort]_vars

-----------------------------------------------------------------------------
(* Vocabulary of the properties *)

SortPcs == {"register", "link", "seed", "dequeue", "relax", "verify"}
RunPcs  == {"loop", "readFile", "instantiate", "invoke", "done"}

SortErrors == {"DuplicateNode", "UnknownDependency", "NodeMissing",
               "NegativeIndegree", "CyclicGraph"}
LoadErrors == {"GraphReadFailure", "GraphParseFailure", "MalformedGraph"}

Failed(kind)      == pc = "failed" /\ outcome.error.kind = kind
FailedIn(kinds)   == pc = "failed" /\ outcome.error.kind \in kinds

\* topoSort was called and has thrown / has returned its order
SortThrew    == FailedIn(SortErrors)
SortReturned == pc \in RunPcs \/ (pc = "failed" /\ ~FailedIn(SortErrors \cup LoadErrors))
SortEnded    == SortThrew \/ SortReturned

Range(q) == {q[x] : x \in 1..Len(q)}

IdsOf(ns) == [x \in 1..Len(ns) |-> ns[x].id]

DistinctIds(ns) == \A a, b \in 1..Len(ns) : a # b => ns[a].id # ns[b].id

KnownDeps(ns) ==
    \A a \in 1..Len(ns) : Range(DependsOnOrEmpty(ns[a])) \subseteq Range(IdsOf(ns))

\* the dependency relation on ids: <<n, d>> when a node with id n lists d
DependsRel(ns) ==
    UNION {{<<ns[a].id, d>> : d \in Range(DependsOnOrEmpty(ns[a]))} : a \in 1..Len(ns)}

Compose(R, S) == UNION {{<<r[1], t[2]>> : t \in {u \in S : u[1] = r[2]}} : r \in R}

RECURSIVE Closure(_, _)
Closure(R, n) == IF n = 0 THEN R ELSE Closure(R \cup Compose(R, R), n - 1)

HasCycle(ns) ==
    \E x \in Range(SortIds) : <<x, x>> \in Closure(DependsRel(ns), Len(SortIds))

ValidGraph(ns) == DistinctIds(ns) /\ KnownDeps(ns) /\ ~HasCycle(ns)

IsPermutation(out, in) ==
    /\ Len(out) = Len(in)
    /\ \E f \in Permutations(1..Len(in)) : \A x \in 1..Len(in) : out[x] = in[f[x]]

DepsFirst(out) ==
    \A x \in 1..Len(out) : \A d \in Range(DependsOnOrEmpty(out[x])) :
        \E y \in 1..(x - 1) : out[y].id = d

-----------------------------------------------------------------------------
(* C1: on a node sequence with pairwise distinct ids, only known ids in     *)
(* dependsOn and an acyclic dependency relation, topoSort succeeds and      *)
(* returns a permutation of its input in which every dependency of a node   *)
(* stands at a strictly smaller index than the node.                        *)
C1_ValidTopologicalOrder ==
    (SortEnded /\ ValidGraph(nodes)) =>
        /\ SortReturned
        /\ IsPermutation(ordered, nodes)
        /\ DepsFirst(ordered)

C1_Witness ==
    /\ SortReturned
    /\ ValidGraph(nodes)
    /\ Len(nodes) = 4
    /\ ordered # nodes
    /\ \E x \in 1..4 : Len(DependsOnOrEmpty(ordered[x])) = 2 /\ Len(adjacency[x].v) = 2

-----------------------------------------------------------------------------
(* C2, as claimed: on every input whose dependency relation has a cycle     *)
(* (a self-loop or a longer one), topoSort fails with CyclicGraph.          *)
C2_AnyCycleFailsCyclic ==
    (SortEnded /\ HasCycle(nodes)) => Failed("CyclicGraph")

(* C2, amended: on every input with pairwise distinct ids and only known    *)
(* ids in dependsOn whose dependency relation has a cycle, topoSort fails   *)
(* with CyclicGraph and hands no order, partial or whole, to runGraph.      *)
C2_CycleFailsCyclic ==
    (SortEnded /\ DistinctIds(nodes) /\ KnownDeps(nodes) /\ HasCycle(nodes)) =>
        /\ Failed("CyclicGraph")
        /\ ordered = <<>>
        /\ outcome = Thrown(Err("CyclicGraph", "", ""))

\* a cycle through all three nodes, a part of the order already built
C2_Witness ==
    /\ Failed("CyclicGraph")
    /\ DistinctIds(nodes)
    /\ KnownDeps(nodes)
    /\ Len(nodes) = 3
    /\ \E x \in 1..3 : nodes[x].id \in Range(DependsOnOrEmpty(nodes[x]))
    /\ result # <<>>

C2_WitnessLongCycle ==
    /\ Failed("CyclicGraph")
    /\ DistinctIds(nodes)
    /\ Len(nodes) = 3
    /\ \A x \in 1..3 : Len(DependsOnOrEmpty(nodes[x])) = 1
    /\ \A x \in 1..3 : nodes[x].id \notin Range(DependsOnOrEmpty(nodes[x]))

-----------------------------------------------------------------------------
(* C3, as claimed: on every input in which some dependsOn names an id that  *)
(* no node carries, topoSort fails with UnknownDependency.                  *)
C3_AnyUnknownFailsUnknown ==
    (SortEnded /\ ~KnownDeps(nodes)) => Failed("UnknownDependency")

\* the first dependsOn entry, in declaration order, that names no node
FirstUnknown(ns) ==
    LET a == CHOOSE x \in 1..Len(ns) :
                 /\ ~(Range(DependsOnOrEmpty(ns[x])) \subseteq Range(IdsOf(ns)))
                 /\ \A y \in 1..(x - 1) :
                        Range(DependsOnOrEmpty(ns[y])) \subseteq Range(IdsOf(ns))
        deps == DependsOnOrEmpty(ns[a])
        k == CHOOSE x \in 1..Len(deps) :
                 /\ deps[x] \notin Range(IdsOf(ns))
                 /\ \A y \in 1..(x - 1) : deps[y] \in Range(IdsOf(ns))
    IN  Err("UnknownDependency", ns[a].id, deps[k])

(* C3, amended: on every input with pairwise distinct ids in which some     *)
(* dependsOn names an id that no node carries, topoSort fails with          *)
(* UnknownDependency, naming the first such node and entry in declaration   *)
(* order; cycles in the same input do not change this.                      *)
C3_UnknownFailsUnknown ==
    (SortEnded /\ DistinctIds(nodes) /\ ~KnownDeps(nodes)) =>
        outcome = Thrown(FirstUnknown(nodes))

\* an unknown entry after a known one, in an input that also has a self-loop
C3_Witness ==
    /\ Failed("UnknownDependency")
    /\ DistinctIds(nodes)
    /\ HasCycle(nodes)
    /\ \E x \in 1..Len(nodes) :
          /\ outcome.error.node = nodes[x].id
          /\ Len(DependsOnOrEmpty(nodes[x])) = 2
          /\ DependsOnOrEmpty(nodes[x])[2] = outcome.error.dep

-----------------------------------------------------------------------------
(* C4: on every input in which two nodes share an id, topoSort fails with   *)
(* DuplicateNode, naming the first repeated id, also when the input has     *)
(* unknown dependencies or cycles.                                          *)
FirstRepeated(ns) ==
    LET b == CHOOSE x \in 1..Len(ns) :
                 /\ \E y \in 1..(x - 1) : ns[y].id = ns[x].id
                 /\ \A z \in 1..(x - 1) : \A y \in 1..(z - 1) : ns[y].id # ns[z].id
    IN  Err("DuplicateNode", ns[b].id, "")

C4_DuplicateFailsFirst ==
    (SortEnded /\ ~DistinctIds(nodes)) => outcome = Thrown(FirstRepeated(nodes))

\* repeated ids together with an unknown dependency and a self-loop
C4_Witness ==
    /\ Failed("DuplicateNode")
    /\ ~KnownDeps(nodes)
    /\ HasCycle(nodes)

-----------------------------------------------------------------------------
(* C5 (two runs of topoSort on the same node sequence end alike) compares   *)
(* two behaviours; it is not a property of one behaviour and has no         *)
(* formula here.                                                            *)

NodeById(ns, n) == ns[CHOOSE x \in 1..Len(ns) : ns[x].id = n]

-----------------------------------------------------------------------------
(* C6: every module invocation for a node with one or more dependsOn        *)
(* entries gets as input the output recorded in the state map for the last  *)
(* entry of dependsOn, and that input is the one its record keeps.          *)
C6_InputIsLastDependencyOutput ==
    \A x \in 1..Len(calls) :
        LET deps == DependsOnOrEmpty(NodeById(nodes, calls[x].id)) IN
        Len(deps) > 0 =>
            /\ MapHas(state, deps[Len(deps)])
            /\ calls[x].input = MapGet(state, deps[Len(deps)]).output
            /\ pc # "invoke" => /\ MapHas(state, calls[x].id)
                                /\ MapGet(state, calls[x].id).input = calls[x].input

\* the third node lists two dependencies with different outputs; the last
\* listed one ran first, the other one ran immediately before the node
C6_Witness ==
    /\ pc = "done"
    /\ Len(calls) = 3
    /\ LET deps == DependsOnOrEmpty(NodeById(nodes, calls[3].id)) IN
         /\ Len(deps) = 2
         /\ deps[2] = calls[1].id
         /\ deps[1] = calls[2].id
         /\ MapGet(state, deps[1]).output # MapGet(state, deps[2]).output
         /\ calls[3].input = MapGet(state, deps[2]).output

-----------------------------------------------------------------------------
(* C7: every module invocation for a node whose dependsOn is empty or       *)
(* absent gets input 0, whatever the state map holds, and its record keeps  *)
(* input 0.                                                                 *)
C7_NoDependencyInputZero ==
    /\ \A x \in 1..Len(calls) :
          Len(DependsOnOrEmpty(NodeById(nodes, calls[x].id))) = 0 => calls[x].input = 0
    /\ \A x \in 1..Len(state) :
          Len(DependsOnOrEmpty(NodeById(nodes, state[x].k))) = 0 => state[x].v.input = 0

\* a node without dependsOn and a node with an empty one, both invoked when
\* the state map already held a record with a non-zero output
C7_Witness ==
    /\ pc = "done"
    /\ Len(calls) = 3
    /\ state[1].v.output # 0
    /\ NodeById(nodes, calls[2].id).dependsOn = Absent
    /\ NodeById(nodes, calls[3].id).dependsOn = Present(<<>>)
    /\ calls[2].input = 0
    /\ calls[3].input = 0

-----------------------------------------------------------------------------
(* C8: execution is strictly sequential in resolved order: the nodes for    *)
(* which executeNode has been called are a prefix of the resolved order,    *)
(* every one of them but the last has its record in the state map, so at    *)
(* most one node is executing, and modules are invoked in the same order.   *)
Executing == {n \in Range(started) : ~MapHas(state, n)}

IsPrefix(p, q) == Len(p) <= Len(q) /\ \A x \in 1..Len(p) : p[x] = q[x]

C8_StrictlySequential ==
    /\ IsPrefix(started, IdsOf(ordered))
    /\ \A x \in 1..(Len(started) - 1) : MapHas(state, started[x])
    /\ Cardinality(Executing) <= 1
    /\ IsPrefix([x \in 1..Len(calls) |-> calls[x].id], started)
    /\ Len(started) - Len(calls) <= 1

\* the second node of the order has begun, it does not depend on the first,
\* and the first is recorded
C8_Witness ==
    /\ pc = "readFile"
    /\ Len(started) = 2
    /\ Len(ordered) = 3
    /\ MapHas(state, started[1])
    /\ started[1] \notin Range(DependsOnOrEmpty(ordered[2]))
    /\ Executing = {started[2]}

-----------------------------------------------------------------------------
(* C9: fail-fast with no partial results: when the load, the resolution or  *)
(* a node fails, the caller receives that error and no state, the failing   *)
(* node is the last one started, and nothing runs afterwards; a state is    *)
(* received only from a run in which every node of the order was recorded.  *)
RunErrors == {"ModuleLoadFailure", "ModuleInstantiateFailure", "MissingEntryPoint",
              "MissingUpstreamState"}

C9_FailureState ==
    /\ pc = "failed" =>
          /\ outcome.kind = "error"
          /\ DOMAIN outcome = {"kind", "error"}
          /\ outcome.error.kind \in LoadErrors \cup SortErrors \cup RunErrors
          /\ outcome.error.kind \in LoadErrors => nodes = <<>> /\ byId = <<>>
          /\ outcome.error.kind \in LoadErrors \cup SortErrors =>
                started = <<>> /\ state = <<>> /\ calls = <<>>
          /\ outcome.error.kind \in RunErrors =>
                /\ Len(started) = Len(state) + 1
                /\ outcome.error.node = started[Len(started)]
                /\ ~MapHas(state, outcome.error.node)
                /\ IsPrefix(started, IdsOf(ordered))
    /\ pc # "failed" => outcome.kind # "error"
    /\ outcome.kind = "state" =>
          /\ pc = "done"
          /\ MapKeys(outcome.state) = IdsOf(ordered)

C9_FailFast == [] C9_FailureState /\ [][pc # "failed"]_vars

\* the second node fails after the first was recorded; the third never starts
C9_Witness ==
    /\ FailedIn(RunErrors)
    /\ Len(state) = 1
    /\ Len(started) = 2
    /\ Len(ordered) = 3
    /\ outcome = Thrown(Err("MissingEntryPoint", ordered[2].id, ""))

-----------------------------------------------------------------------------
(* C10: the state map is write-once and append-only: a step that changes it *)
(* appends one record under an id that had none, leaving every earlier      *)
(* record as it was; and every record sits under the id of a node of the    *)
(* graph, its dependencies being that node's declared dependsOn.            *)
C10_RecordsOfNodes ==
    \A x \in 1..Len(state) :
        /\ state[x].k \in Range(IdsOf(nodes))
        /\ state[x].v.dependencies = DependsOnOrEmpty(NodeById(nodes, state[x].k))
        /\ \A y \in 1..Len(state) : state[y].k = state[x].k => y = x

C10_AppendOne ==
    state' # state =>
        /\ Len(state') = Len(state) + 1
        /\ SubSeq(state', 1, Len(state)) = state
        /\ ~MapHas(state, state'[Len(state')].k)

C10_WriteOnceAppendOnly == [] C10_RecordsOfNodes /\ [][C10_AppendOne]_vars

\* three records, the last one of a node with two dependencies
C10_Witness ==
    /\ pc = "done"
    /\ Len(state) = 3
    /\ Len(state[3].v.dependencies) = 2
    /\ outcome = Returned(state)

-----------------------------------------------------------------------------
(* C11: at every point of a run the keys of the state map, in insertion     *)
(* order, are a prefix of the ids of the resolved order, as are the ids of  *)
(* the module invocations; a run that returns its state has exactly one     *)
(* record per node of the graph, in resolved order, and invoked the module  *)
(* of every node exactly once.                                              *)
CallIds == [x \in 1..Len(calls) |-> calls[x].id]

C11_StateKeysFollowOrder ==
    /\ IsPrefix(MapKeys(state), IdsOf(ordered))
    /\ IsPrefix(CallIds, IdsOf(ordered))
    /\ pc = "done" =>
          /\ MapKeys(state) = IdsOf(ordered)
          /\ CallIds = IdsOf(ordered)
          /\ Len(state) = Len(nodes)
          /\ \A x \in 1..Len(nodes) :
                /\ Cardinality({y \in 1..Len(state) : state[y].k = nodes[x].id}) = 1
                /\ Cardinality({y \in 1..Len(calls) : calls[y].id = nodes[x].id}) = 1
                /\ Cardinality({y \in 1..Len(calls) :
                                   calls[y].module = nodes[x].wasm}) = 1
          /\ outcome = Returned(state)

\* a finished run of three nodes whose resolved order is not the declared one
C11_Witness ==
    /\ pc = "done"
    /\ Len(state) = 3
    /\ IdsOf(ordered) # IdsOf(nodes)
    /\ MapKeys(state) = IdsOf(ordered)

-----------------------------------------------------------------------------
(* C12: every resolver failure comes before any module is loaded or         *)
(* invoked: while a graph that is not valid (a repeated id, an unknown      *)
(* dependency or a cycle) is loaded and resolved, and after its resolution  *)
(* has failed, no node has been started, no module read or invoked and no   *)
(* record written; the run never reaches the execution loop.                *)
NothingExecuted ==
    /\ started = <<>>
    /\ calls = <<>>
    /\ state = <<>>
    /\ entry = "none"
    /\ ordered = <<>>

C12_ResolverFailsBeforeExecution ==
    /\ (pc \in SortPcs \/ FailedIn(SortErrors)) => NothingExecuted
    /\ (disk.kind = "graph" /\ pc # "loadGraph" /\ ~ValidGraph(nodes)) =>
          /\ NothingExecuted
          /\ pc \in SortPcs \/ FailedIn(SortErrors)

\* a cycle behind two nodes that topoSort had already put in its result
C12_Witness ==
    /\ Failed("CyclicGraph")
    /\ Len(result) = 2
    /\ Len(nodes) = 3
    /\ NothingExecuted

-----------------------------------------------------------------------------
(* C13: the end-to-end scenario: for fetchUser (no dependencies),           *)
(* calcDiscount (dependsOn [fetchUser]) and renderProfile (dependsOn        *)
(* [calcDiscount]) in any declaration order, with the three built modules,  *)
(* the run fails in no other way than by a module file failure, its         *)
(* records are at every point a prefix of fetchUser 0 -> 1001,              *)
(* calcDiscount 1001 -> 2001, renderProfile 2001 -> 4002, and on            *)
(* completion runGraph returns exactly these three, in this order.          *)
ScenarioGraph(ns) ==
    /\ Len(ns) = 3
    /\ {ns[x].id : x \in 1..3} = {"fetchUser", "calcDiscount", "renderProfile"}
    /\ \A x \in 1..3 :
          DependsOnOrEmpty(ns[x]) =
              CASE ns[x].id = "fetchUser"     -> <<>>
                [] ns[x].id = "calcDiscount"  -> <<"fetchUser">>
                [] ns[x].id = "renderProfile" -> <<"calcDiscount">>

ScenarioState ==
    << [k |-> "fetchUser",
        v |-> [input |-> 0, output |-> 1001, dependencies |-> <<>>]],
       [k |-> "calcDiscount",
        v |-> [input |-> 1001, output |-> 2001, dependencies |-> <<"fetchUser">>]],
       [k |-> "renderProfile",
        v |-> [input |-> 2001, output |-> 4002, dependencies |-> <<"calcDiscount">>]] >>

ModuleFileErrors == {"ModuleLoadFailure", "ModuleInstantiateFailure", "MissingEntryPoint"}

C13_EndToEndScenario ==
    (disk.kind = "graph" /\ ScenarioGraph(disk.nodes)) =>
        /\ pc = "failed" => FailedIn(ModuleFileErrors)
        /\ IsPrefix(state, ScenarioState)
        /\ pc = "done" => outcome = Returned(ScenarioState)

\* the scenario declared in reverse order, run to completion
C13_Witness ==
    /\ pc = "done"
    /\ ScenarioGraph(nodes)
    /\ IdsOf(nodes) = <<"renderProfile", "calcDiscount", "fetchUser">>
    /\ outcome = Returned(ScenarioState)

-----------------------------------------------------------------------------
(* C14: tie-breaking of topoSort.  The queue is seeded with the nodes       *)
(* without dependencies in declaration order; afterwards ids only leave at  *)
(* its head and enter at its tail, an id entering exactly when its          *)
(* in-degree goes from 1 to 0.  Hence on a valid graph the nodes without    *)
(* dependencies are a prefix of the output in declaration order, the other  *)
(* nodes follow in the order of the nodes that released them, and nodes     *)
(* released by the same node follow in declaration order.                   *)
Pos(q, n) == CHOOSE x \in 1..Len(q) : q[x] = n

IsRoot(node) == Len(DependsOnOrEmpty(node)) = 0

\* the dependency of `node` that is output last: its dequeue releases `node`
ReleaserPos(out, node) ==
    CHOOSE x \in 1..Len(out) :
        /\ out[x].id \in Range(DependsOnOrEmpty(node))
        /\ \A y \in (x + 1)..Len(out) : out[y].id \notin Range(DependsOnOrEmpty(node))

\* everything enqueued so far, in enqueue order
Enqueued == IdsOf(result) \o queue

C14_OutputOrder ==
    (SortReturned /\ ValidGraph(nodes)) =>
        \A x, y \in 1..Len(ordered) : x < y =>
            LET a == ordered[x]
                b == ordered[y]
                da == Pos(IdsOf(nodes), a.id)
                db == Pos(IdsOf(nodes), b.id)
            IN  /\ IsRoot(b) => IsRoot(a) /\ da < db
                /\ (~IsRoot(a) /\ ~IsRoot(b)) =>
                      \/ ReleaserPos(ordered, a) < ReleaserPos(ordered, b)
                      \/ /\ ReleaserPos(ordered, a) = ReleaserPos(ordered, b)
                         /\ da < db

C14_SeedInDeclarationOrder ==
    pc = "dequeue" /\ result = <<>> =>
        queue = IdsOf(SelectSeq(nodes, IsRoot))

C14_FifoStep ==
    (pc \in {"dequeue", "relax"}) =>
        \/ Enqueued' = Enqueued
        \/ \E n \in Range(IdsOf(nodes)) :
              /\ Enqueued' = Append(Enqueued, n)
              /\ queue' = Append(queue, n)
              /\ MapGet(inDegree, n) = 1
              /\ MapGet(inDegree', n) = 0

C14_TieBreaking ==
    /\ [] C14_OutputOrder
    /\ [] (DistinctIds(nodes) => C14_SeedInDeclarationOrder)
    /\ [][C14_FifoStep]_vars

\* two roots declared after their dependents, and two nodes released by the
\* same root
C14_Witness ==
    /\ SortReturned
    /\ ValidGraph(nodes)
    /\ Len(nodes) = 4
    /\ ~IsRoot(nodes[1])
    /\ IsRoot(ordered[1]) /\ IsRoot(ordered[2])
    /\ ~IsRoot(ordered[3]) /\ ~IsRoot(ordered[4])
    /\ ReleaserPos(ordered, ordered[3]) = ReleaserPos(ordered, ordered[4])

-----------------------------------------------------------------------------
(* C15: the lifecycle of every node is Pending -> Executing -> Recorded:    *)
(* a step takes a node from Pending to Executing or from Executing to       *)
(* Recorded or leaves it where it is; no node is started twice; and a node  *)
(* whose execution fails stays Executing for good, as the run has ended.    *)
StatusIn(sd, st, n) ==
    IF MapHas(st, n) THEN "Recorded"
    ELSE IF n \in Range(sd) THEN "Executing"
    ELSE "Pending"

Status(n) == StatusIn(started, state, n)

C15_LifecycleStep ==
    \A n \in Ids :
        LET now  == StatusIn(started, state, n)
            next == StatusIn(started', state', n)
        IN  /\ now = "Pending"   => next \in {"Pending", "Executing"}
            /\ now = "Executing" => next \in {"Executing", "Recorded"}
            /\ now = "Recorded"  => next = "Recorded"
            /\ now = next => Cardinality({x \in 1..Len(started') : started'[x] = n})
                             = Cardinality({x \in 1..Len(started) : started[x] = n})

C15_LifecycleState ==
    /\ \A x, y \in 1..Len(started) : started[x] = started[y] => x = y
    /\ \A n \in Range(MapKeys(state)) : n \in Range(started)
    /\ pc \in {"readFile", "instantiate", "invoke"} =>
          Status(ordered[i].id) = "Executing"
    /\ pc \in SortPcs \cup {"loadGraph"} => \A n \in Ids : Status(n) = "Pending"
    /\ FailedIn(RunErrors) => Status(outcome.error.node) = "Executing"
    /\ pc = "done" => \A n \in Range(IdsOf(nodes)) : Status(n) = "Recorded"

C15_Lifecycle ==
    /\ [] C15_LifecycleState
    /\ [][C15_LifecycleStep]_vars
    /\ [][pc # "failed"]_<<started, state>>

\* one node Recorded, one Executing, one Pending
C15_Witness ==
    /\ pc = "instantiate"
    /\ Len(ordered) = 3
    /\ Status(ordered[1].id) = "Recorded"
    /\ Status(ordered[2].id) = "Executing"
    /\ Status(ordered[3].id) = "Pending"

-----------------------------------------------------------------------------
(* C16: MissingUpstreamState is unreachable in runGraph: whenever           *)
(* resolveInput is about to be called for a node with a non-empty           *)
(* dependsOn, the state map holds a record for its last entry, and no run   *)
(* fails with 'Missing state for dependency'.                               *)
C16_UpstreamStatePresent ==
    /\ ~Failed("MissingUpstreamState")
    /\ pc \in {"readFile", "instantiate", "invoke"} =>
          /\ \A d \in Range(DependsOnOrEmpty(ordered[i])) : MapHas(state, d)
          /\ ResolveInput(ordered[i], state).ok

\* resolveInput is about to run for a node whose last dependency is not the
\* node executed just before it
C16_Witness ==
    /\ pc = "invoke"
    /\ entry # "noMain"
    /\ Len(state) = 2
    /\ Len(DependsOnOrEmpty(ordered[3])) = 2
    /\ LastDependency(DependsOnOrEmpty(ordered[3])) = state[1].k
    /\ ResolveInput(ordered[3], state).value = state[1].v.output

-----------------------------------------------------------------------------
(* C17: the graph is never mutated after load: from loadGraph on, the node  *)
(* sequence, its order and every node's id, module path and dependsOn stay  *)
(* as loaded through topoSort and executeNode; the order topoSort returns   *)
(* holds the same nodes in an array of its own, and every record's          *)
(* dependencies has the value of the node's dependsOn in an array that is   *)
(* neither the node sequence nor any node's dependsOn array.                *)
C17_GraphAsLoaded ==
    /\ (disk.kind = "graph" /\ pc # "loadGraph") => nodes = disk.nodes
    /\ \A x \in 1..Len(byId) : byId[x].v \in Range(nodes) /\ byId[x].v.id = byId[x].k
    /\ \A x \in 1..Len(result) : result[x] \in Range(nodes)
    /\ SortReturned => IsPermutation(ordered, nodes)
    /\ \A x \in 1..Len(state) :
          \E n \in Range(nodes) :
              n.id = state[x].k /\ state[x].v.dependencies = DependsOnOrEmpty(n)
    /\ SortReturned => refs.ordered = ResultArray /\ refs.ordered # NodesArray
    /\ MapKeys(refs.dependencies) = MapKeys(state)
    /\ \A x \in 1..Len(refs.dependencies) :
          /\ refs.dependencies[x].v # NodesArray
          /\ \A n \in Range(nodes) : refs.dependencies[x].v # DependsOnArray(n.id)

C17_GraphNotMutated ==
    /\ [] C17_GraphAsLoaded
    /\ [][pc # "loadGraph" => nodes' = nodes]_vars
    /\ [][disk' = disk]_vars

\* a finished run whose resolved order differs from the declared one, the
\* node sequence still as loaded
C17_Witness ==
    /\ pc = "done"
    /\ Len(nodes) = 3
    /\ nodes = disk.nodes
    /\ ordered # nodes
    /\ Len(state[3].v.dependencies) = 2
    /\ refs.ordered = ResultArray
    /\ refs.dependencies[3].v = SpreadArray(state[3].k)

-----------------------------------------------------------------------------
(* C18: the defensive checks of the queue loop are unreachable: on every    *)
(* node sequence that passes the duplicate-id and unknown-dependency        *)
(* checks (valid, cyclic, or with repeated dependsOn entries) no in-degree  *)
(* is ever negative, the decrement of line 78 always finds a degree of at   *)
(* least 1, every id is enqueued and dequeued at most once and is a key of  *)
(* byId, and neither 'Negative indegree' nor 'node missing during sort' is  *)
(* thrown.                                                                  *)
NoRepeat(q) == \A a, b \in 1..Len(q) : a # b => q[a] # q[b]

HasRepeatedEntry(ns) == \E a \in 1..Len(ns) : ~NoRepeat(DependsOnOrEmpty(ns[a]))

C18_ResolverFaultUnreachable ==
    /\ ~FailedIn({"NegativeIndegree", "NodeMissing"})
    /\ \A x \in 1..Len(inDegree) : inDegree[x].v >= 0
    /\ (pc = "relax" /\ j <= Len(NeighborsOrEmpty(adjacency, id))) =>
           DegreeOrZero(inDegree, NeighborsOrEmpty(adjacency, id)[j]) >= 1
    /\ NoRepeat(Enqueued)
    /\ Range(Enqueued) \subseteq Range(MapKeys(byId))
    /\ Len(result) <= Len(nodes)

\* a sequence with a repeated entry and a cycle went through the queue loop
C18_Witness ==
    /\ Failed("CyclicGraph")
    /\ DistinctIds(nodes) /\ KnownDeps(nodes)
    /\ HasRepeatedEntry(nodes)
    /\ HasCycle(nodes)
    /\ Len(result) = 2
    /\ \E x \in 1..Len(inDegree) : inDegree[x].v = 1

-----------------------------------------------------------------------------
(* topoSort as a function of the node sequence, for sequences that pass the *)
(* duplicate-id and unknown-dependency checks: the ids in output order      *)

\* lines 41-48: the maps after the first loop
InitialMaps(ns) ==
    [inDegree  |-> [x \in 1..Len(ns) |-> [k |-> ns[x].id, v |-> 0]],
     adjacency |-> [x \in 1..Len(ns) |-> [k |-> ns[x].id, v |-> <<>>]]]

\* lines 50-58: the maps after the entries from entry y of node x on
RECURSIVE LinkFrom(_, _, _, _)
LinkFrom(ns, x, y, m) ==
    IF x > Len(ns) THEN m
    ELSE LET deps == DependsOnOrEmpty(ns[x]) IN
         IF y > Len(deps) THEN LinkFrom(ns, x + 1, 1, m)
         ELSE LinkFrom(ns, x, y + 1,
                  [inDegree  |-> MapSet(m.inDegree, ns[x].id,
                                        DegreeOrZero(m.inDegree, ns[x].id) + 1),
                   adjacency |-> PushNeighbor(m.adjacency, deps[y], ns[x].id)])

\* lines 76-85: in-degrees and queue after the neighbors from index y on
RECURSIVE RelaxFrom(_, _, _, _)
RelaxFrom(neighbors, y, deg, q) ==
    IF y > Len(neighbors) THEN [inDegree |-> deg, queue |-> q]
    ELSE LET nextDegree == DegreeOrZero(deg, neighbors[y]) - 1 IN
         RelaxFrom(neighbors, y + 1, MapSet(deg, neighbors[y], nextDegree),
                   IF nextDegree = 0 THEN Append(q, neighbors[y]) ELSE q)

\* lines 68-86: the queue loop
RECURSIVE Drain(_, _, _, _)
Drain(adj, deg, q, res) ==
    IF q = <<>> THEN res
    ELSE LET r == RelaxFrom(NeighborsOrEmpty(adj, Head(q)), 1, deg, Tail(q)) IN
         Drain(adj, r.inDegree, r.queue, Append(res, Head(q)))

TopoSortIds(ns) ==
    LET m == LinkFrom(ns, 1, 1, InitialMaps(ns)) IN
    Drain(m.adjacency, m.inDegree, SeedQueue(m.inDegree), <<>>)

-----------------------------------------------------------------------------
(* C19: repeated entries in dependsOn are accepted and do not change the    *)
(* order: on every valid graph topoSort returns (no cycle error, no fault), *)
(* and the order it returns is the order of topoSort on the graph without   *)
(* the repeated entries, whether the first or the last occurrence of a      *)
(* repeated entry is the one kept.                                          *)
RECURSIVE KeepFirst(_)
KeepFirst(q) ==
    IF q = <<>> THEN <<>>
    ELSE LET front == KeepFirst(SubSeq(q, 1, Len(q) - 1)) IN
         IF q[Len(q)] \in Range(front) THEN front ELSE Append(front, q[Len(q)])

RECURSIVE KeepLast(_)
KeepLast(q) ==
    IF q = <<>> THEN <<>>
    ELSE IF Head(q) \in Range(Tail(q)) THEN KeepLast(Tail(q))
    ELSE <<Head(q)>> \o KeepLast(Tail(q))

WithoutRepeatsFirst(ns) ==
    [x \in 1..Len(ns) |->
        [ns[x] EXCEPT !.dependsOn = Present(KeepFirst(DependsOnOrEmpty(ns[x])))]]

WithoutRepeatsLast(ns) ==
    [x \in 1..Len(ns) |->
        [ns[x] EXCEPT !.dependsOn = Present(KeepLast(DependsOnOrEmpty(ns[x])))]]

C19_RepeatedEntriesKeepOrder ==
    (SortEnded /\ ValidGraph(nodes)) =>
        /\ SortReturned
        /\ IdsOf(ordered) = TopoSortIds(nodes)
        /\ IdsOf(ordered) = TopoSortIds(WithoutRepeatsFirst(nodes))
        /\ IdsOf(ordered) = TopoSortIds(WithoutRepeatsLast(nodes))

C19_Witness ==
    /\ SortReturned
    /\ ValidGraph(nodes)
    /\ HasRepeatedEntry(nodes)
    /\ WithoutRepeatsFirst(nodes) # nodes
    /\ Len(nodes) = 4
    /\ ordered # nodes
    /\ IdsOf(ordered) = TopoSortIds(WithoutRepeatsFirst(nodes))

\* the first and the last occurrence differ: <<a, b, a>> keeps a, b or b, a
C19_WitnessOrderOfEntries ==
    /\ SortReturned
    /\ ValidGraph(nodes)
    /\ WithoutRepeatsFirst(nodes) # WithoutRepeatsLast(nodes)

-----------------------------------------------------------------------------
(* C20: every run terminates: runGraph eventually returns the final state   *)
(* or fails with an error, and then takes no further step; the queue loop   *)
(* of topoSort dequeues at most as many times as there are nodes, also on   *)
(* cyclic inputs.                                                           *)
Ended ==
    \/ pc = "done" /\ outcome = Returned(state)
    \/ pc = "failed" /\ outcome.kind = "error"

C20_Terminates ==
    /\ <>[] Ended
    /\ [](Len(result) <= Len(nodes))
    /\ [](outcome # Pending <=> Ended)

\* a cyclic input: the queue loop ended after one dequeue of three nodes
C20_Witness ==
    /\ Ended
    /\ Failed("CyclicGraph")
    /\ Len(nodes) = 3
    /\ Len(result) = 1

\* a run of three nodes returned after three dequeues
C20_WitnessReturned ==
    /\ Ended
    /\ pc = "done"
    /\ Len(nodes) = 3
    /\ Len(result) = 3

====
